---- MODULE Spec2Model ----
(***************************************************************************)
(* Model of shapefile_reader.py: one command-line invocation of the        *)
(* shapefile-to-CSV converter (main -> convert_shapefile_to_csv).          *)
(*                                                                         *)
(* A data frame is a record [nrows, cols, crs]; a column is a record       *)
(* [name, dtype, cells]; every cell has the same shape                     *)
(* [kind, num, str, geom] so that cells of different kinds compare.        *)
(* kind is "null" (None / NaN), "num", "str", "geom" (a geometry object)   *)
(* or "wkt" (the text encoding of the geometry held in geom).              *)
(***************************************************************************)
EXTENDS Integers, Sequences, FiniteSets, TLC

\* ---------------------------------------------------------------- bounds
MaxFeatures == 2
MaxAttrs == 2

\* ------------------------------------------------------------- constants
EPSG4326 == 4326

\* -------------------------------------------------------------- geometry
NoGeom == [gtype |-> "None", x1 |-> 0, y1 |-> 0, x2 |-> 0, y2 |-> 0]

Null == [kind |-> "null", num |-> 0, str |-> "", geom |-> NoGeom]
Num(n) == [kind |-> "num", num |-> n, str |-> "", geom |-> NoGeom]
Str(s) == [kind |-> "str", num |-> 0, str |-> s, geom |-> NoGeom]
NumText(n) == [kind |-> "str", num |-> n, str |-> "", geom |-> NoGeom]
GeomObj(g) == [kind |-> "geom", num |-> 0, str |-> "", geom |-> g]
WktText(g) == [kind |-> "wkt", num |-> 0, str |-> "", geom |-> g]

PointAt(x, y) == [gtype |-> "Point", x1 |-> x, y1 |-> y, x2 |-> x, y2 |-> y]

GeomTypes == {"Point", "LineString", "Polygon", "None"}

\* The geometry of feature i of a dataset, by geometry type: a point, a
\* two-vertex line, an axis-aligned rectangle, or a missing geometry.
FeatureGeom(t, i) ==
  CASE t = "Point" -> GeomObj(PointAt(2 * i - 1, 2 * i))
    [] t = "LineString" ->
         GeomObj([gtype |-> "LineString", x1 |-> 0, y1 |-> 0,
                  x2 |-> 4 * i, y2 |-> 2 * i])
    [] t = "Polygon" ->
         GeomObj([gtype |-> "Polygon", x1 |-> 2, y1 |-> 2,
                  x2 |-> 2 + 2 * i, y2 |-> 4 + 2 * i])
    [] OTHER -> Null

\* GeoSeries.geom_type: the type name, None for a missing geometry.
geom_type(c) == IF c.kind = "geom" THEN Str(c.geom.gtype) ELSE Null

\* GeoSeries.centroid: midpoint of the two-vertex line / the rectangle, the
\* point itself for a Point, None for a missing geometry.
centroid(c) ==
  IF c.kind = "geom"
  THEN GeomObj(PointAt((c.geom.x1 + c.geom.x2) \div 2,
                       (c.geom.y1 + c.geom.y2) \div 2))
  ELSE Null

\* GeoSeries.x / .y are defined only when every non-missing geometry is a
\* Point; otherwise geopandas raises ValueError.
XYDefined(cells) ==
  \A i \in 1..Len(cells) :
     cells[i].kind = "geom" => cells[i].geom.gtype = "Point"

geom_x(c) == IF c.kind = "geom" THEN Num(c.geom.x1) ELSE Null
geom_y(c) == IF c.kind = "geom" THEN Num(c.geom.y1) ELSE Null

\* GeoSeries.to_wkt: the text encoding, None for a missing geometry.
to_wkt(c) == IF c.kind = "geom" THEN WktText(c.geom) ELSE Null

\* Series.astype(str): str() of every cell.
astype_str(c) ==
  CASE c.kind = "geom" -> WktText(c.geom)
    [] c.kind = "null" -> Str("None")
    [] c.kind = "num" -> NumText(c.num)
    [] OTHER -> c

\* ------------------------------------------------- coordinate reference
NoCrs == [declared |-> FALSE, epsg |-> 0]
Epsg(n) == [declared |-> TRUE, epsg |-> n]
\* epsg = 0 stands for a CRS whose to_epsg() is None.
CrsValues == {NoCrs, Epsg(4326), Epsg(3857), Epsg(0)}

\* gdf.to_crs('EPSG:4326') on one geometry: the projection moves every
\* vertex; a geometry already in EPSG:4326 is returned as it is.
to_crs_geom(c, crs) ==
  IF c.kind # "geom" \/ crs.epsg = EPSG4326 THEN c
  ELSE LET d == IF crs.epsg = 3857 THEN 100 ELSE 200
       IN GeomObj([gtype |-> c.geom.gtype,
                   x1 |-> c.geom.x1 + d, y1 |-> c.geom.y1 + 2 * d,
                   x2 |-> c.geom.x2 + d, y2 |-> c.geom.y2 + 2 * d])

\* ------------------------------------------------------------ data frame
Column(n, d, cs) == [name |-> n, dtype |-> d, cells |-> cs]

HasCol(cols, n) == \E i \in 1..Len(cols) : cols[i].name = n
ColIdx(cols, n) == CHOOSE i \in 1..Len(cols) : cols[i].name = n
GetCol(cols, n) == cols[ColIdx(cols, n)].cells
ColNames(cols) == [i \in 1..Len(cols) |-> cols[i].name]

\* df[name] = cells: replaces an existing column in place, else appends.
SetCol(cols, n, d, cs) ==
  IF HasCol(cols, n)
  THEN [cols EXCEPT ![ColIdx(cols, n)] = Column(n, d, cs)]
  ELSE Append(cols, Column(n, d, cs))

\* df.drop(columns=[name])
DropCol(cols, n) == SelectSeq(cols, LAMBDA c : c.name # n)

MapCells(cells, Op(_)) == [i \in 1..Len(cells) |-> Op(cells[i])]

EmptyFrame == [nrows |-> 0, cols |-> <<>>, crs |-> NoCrs]

\* ------------------------------------------------------- input datasets
Templates == {"name", "longitude", "shape", "late"}

\* Attribute columns a dataset may carry: text, numbers (under the name
\* longitude), geometry-like values, and geometry-like values after a
\* missing first cell.
AttrColumn(t, n) ==
  CASE t = "name" ->
         Column(t, "object", [i \in 1..n |-> Str(IF i = 1 THEN "a" ELSE "b")])
    [] t = "longitude" ->
         Column(t, "int64", [i \in 1..n |-> Num(1000 + i)])
    [] t = "shape" ->
         Column(t, "object", [i \in 1..n |-> FeatureGeom("LineString", i)])
    [] OTHER ->
         Column(t, "object",
                [i \in 1..n |-> IF i = 1 THEN Null
                                ELSE FeatureGeom("Point", i)])

Schemas ==
  {s \in UNION {[1..k -> Templates] : k \in 0..MaxAttrs} :
     \A i, j \in 1..Len(s) : i # j => s[i] # s[j]}

\* gpd.read_file result: attribute columns, then the geometry column.
MakeDataset(schema, gts, crs) ==
  [nrows |-> Len(gts),
   cols |-> [i \in 1..Len(schema) |-> AttrColumn(schema[i], Len(gts))]
            \o << Column("geometry", "geometry",
                         [i \in 1..Len(gts) |-> FeatureGeom(gts[i], i)]) >>,
   crs |-> crs]

Datasets ==
  {MakeDataset(s, g, c) :
     s \in Schemas,
     g \in UNION {[1..n -> GeomTypes] : n \in 0..MaxFeatures},
     c \in CrsValues}

\* ------------------------------------------------------------ file system
Paths == {"in.shp", "in.csv", "out.csv"}
Absent == [kind |-> "absent", header |-> <<>>, nrows |-> 0]
ShpFile == [kind |-> "shp", header |-> <<>>, nrows |-> 0]

path_exists_always(files, p) == TRUE

\* os.path.exists
path_exists(files, p) == files[p].kind # "absent"

\* Path(p).with_suffix('.csv')
with_suffix_csv(p) == IF p = "in.shp" THEN "in.csv" ELSE p

\* DataFrame.to_csv(path, index=False): header row of column names, one
\* line per row of the frame.
to_csv(frame) ==
  [kind |-> "csv", header |-> ColNames(frame.cols), nrows |-> frame.nrows]

\* pd.read_csv fails (EmptyDataError) on a file without columns.
read_csv_ok(file) == file.kind = "csv" /\ Len(file.header) > 0
read_csv(file) == [ok |-> TRUE, columns |-> file.header, nrows |-> file.nrows]
NoPreview == [ok |-> FALSE, columns |-> <<>>, nrows |-> 0]

\* ------------------------------------------------------------ exceptions
\* Process exit status: sys.exit(1) in the except clause, 0 when main
\* runs to its end.
ExitStatusZero(failed) == 0

ExitStatus(failed) == IF failed THEN 1 ELSE 0

NoExc == [type |-> "none", msg |-> ""]
Exc(t, m) == [type |-> t, msg |-> m]

\* ------------------------------------------------- flattening policy
CoordFormats == {"separate", "wkt", "centroid", "none"}

DropsGeometryIgnoringFlag(coord_format, include_geometry) ==
  coord_format = "none"

\* coord_format == 'none' or not include_geometry
DropsGeometry(coord_format, include_geometry) ==
  coord_format = "none" \/ ~include_geometry

\* 'Point' in df.geometry.geom_type.unique()
HasPoint(cells) ==
  \E i \in 1..Len(cells) : geom_type(cells[i]) = Str("Point")

PointColumnsSwapped(cols) ==
  LET g == GetCol(cols, "geometry")
      c1 == SetCol(cols, "longitude", "float64", MapCells(g, geom_y))
  IN SetCol(c1, "latitude", "float64", MapCells(g, geom_x))

\* df['longitude'] = df.geometry.x ; df['latitude'] = df.geometry.y
PointColumns(cols) ==
  LET g == GetCol(cols, "geometry")
      c1 == SetCol(cols, "longitude", "float64", MapCells(g, geom_x))
  IN SetCol(c1, "latitude", "float64", MapCells(g, geom_y))

CentroidColumnsNoType(cols) ==
  LET g == GetCol(cols, "geometry")
      centroids == MapCells(g, centroid)
      c1 == SetCol(cols, "longitude", "float64", MapCells(centroids, geom_x))
  IN SetCol(c1, "latitude", "float64", MapCells(centroids, geom_y))

\* The else branch of 'separate': centroid coordinates and geometry type.
CentroidColumns(cols) ==
  LET g == GetCol(cols, "geometry")
      centroids == MapCells(g, centroid)
      c1 == SetCol(cols, "longitude", "float64", MapCells(centroids, geom_x))
      c2 == SetCol(c1, "latitude", "float64", MapCells(centroids, geom_y))
  IN SetCol(c2, "geometry_type", "object", MapCells(g, geom_type))

\* coord_format == 'centroid'
CentroidModeColumns(cols) ==
  LET g == GetCol(cols, "geometry")
      centroids == MapCells(g, centroid)
      c1 == SetCol(cols, "longitude", "float64", MapCells(centroids, geom_x))
      c2 == SetCol(c1, "latitude", "float64", MapCells(centroids, geom_y))
  IN SetCol(c2, "geometry_type", "object", MapCells(g, geom_type))

\* coord_format == 'wkt'
WktColumns(cols) ==
  LET g == GetCol(cols, "geometry")
      c1 == SetCol(cols, "geometry_wkt", "object", MapCells(g, to_wkt))
  IN SetCol(c1, "geometry_type", "object", MapCells(g, geom_type))

\* df.geometry.x raises ValueError: 'separate' with a Point present and
\* some geometry that is not a Point.
SeparateRaises(cols) ==
  HasPoint(GetCol(cols, "geometry")) /\ ~XYDefined(GetCol(cols, "geometry"))

\* The if / elif chain over coord_format.
FlattenRaises(cols, coord_format, include_geometry) ==
  /\ ~DropsGeometry(coord_format, include_geometry)
  /\ coord_format = "separate"
  /\ SeparateRaises(cols)

Flatten(cols, coord_format, include_geometry) ==
  IF DropsGeometry(coord_format, include_geometry)
  THEN DropCol(cols, "geometry")
  ELSE CASE coord_format = "separate" ->
              IF HasPoint(GetCol(cols, "geometry"))
              THEN DropCol(PointColumns(cols), "geometry")
              ELSE DropCol(CentroidColumns(cols), "geometry")
         [] coord_format = "centroid" ->
              DropCol(CentroidModeColumns(cols), "geometry")
         [] coord_format = "wkt" -> DropCol(WktColumns(cols), "geometry")
         [] OTHER -> cols

\* hasattr(df[col].iloc[0], 'geom_type') for an object column; iloc[0] of
\* an empty column raises IndexError, which the loop swallows.
FirstCellIsGeometry(col) ==
  /\ col.dtype = "object"
  /\ Len(col.cells) > 0
  /\ col.cells[1].kind = "geom"

\* The clean-up loop over df.columns.
CleanUp(cols) ==
  [i \in 1..Len(cols) |->
     IF FirstCellIsGeometry(cols[i])
     THEN Column(cols[i].name, cols[i].dtype,
                 MapCells(cols[i].cells, astype_str))
     ELSE cols[i]]

NeedsReprojectAnyCrs(crs) == crs.declared

\* gdf.crs and gdf.crs.to_epsg() != 4326
NeedsReproject(crs) == crs.declared /\ crs.epsg # EPSG4326

\* gdf.to_crs('EPSG:4326')
to_crs(frame) ==
  [nrows |-> frame.nrows,
   cols |-> [i \in 1..Len(frame.cols) |->
               IF frame.cols[i].name = "geometry"
               THEN Column("geometry", "geometry",
                           [j \in 1..Len(frame.cols[i].cells) |->
                              to_crs_geom(frame.cols[i].cells[j], frame.crs)])
               ELSE frame.cols[i]],
   crs |-> Epsg(EPSG4326)]

\* ------------------------------------------------------------------ state
VARIABLES
  pc,         \* position in main / convert_shapefile_to_csv
  args,       \* parsed command line
  files,      \* file system: path -> content
  dataset,    \* the feature set stored in the source file
  call,       \* parameters of convert_shapefile_to_csv (csv_path is updated)
  gdf,        \* the loaded (and possibly reprojected) GeoDataFrame
  df,         \* the working copy / output table
  exc,        \* exception in flight
  called,     \* which collaborators have been invoked
  caught,     \* number of times main's except clause ran
  stdout,     \* what main printed
  preview,    \* result of the preview pd.read_csv
  exit_code   \* process exit status, -1 while running

vars == << pc, args, files, dataset, call, gdf, df, exc, called, caught,
           stdout, preview, exit_code >>

NoCall == [shp_path |-> "", csv_path |-> "None", include_geometry |-> TRUE,
           coord_format |-> "separate"]
NothingCalled == [reader |-> FALSE, to_crs |-> FALSE, writer |-> FALSE]
Line(t, a) == [text |-> t, arg |-> a]

Init ==
  /\ pc = "main"
  /\ args \in [shapefile : {"in.shp"},
               output : {"None", "out.csv", "in.shp"},
               no_geometry : BOOLEAN,
               coord_format : CoordFormats]
  /\ \E present \in BOOLEAN :
       /\ files = [p \in Paths |->
                     IF p = "in.shp" /\ present THEN ShpFile ELSE Absent]
       /\ IF present THEN dataset \in Datasets
          ELSE dataset = EmptyFrame
  /\ call = NoCall
  /\ gdf = EmptyFrame
  /\ df = EmptyFrame
  /\ exc = NoExc
  /\ called = NothingCalled
  /\ caught = 0
  /\ stdout = <<>>
  /\ preview = NoPreview
  /\ exit_code = -1

\* main: parse_args, then the call of convert_shapefile_to_csv.
Main ==
  /\ pc = "main"
  /\ call' = [shp_path |-> args.shapefile,
              csv_path |-> args.output,
              include_geometry |-> ~args.no_geometry,
              coord_format |-> args.coord_format]
  /\ pc' = "check"
  /\ UNCHANGED << args, files, dataset, gdf, df, exc, called, caught, stdout,
                  preview, exit_code >>

\* if not os.path.exists(shp_path): raise FileNotFoundError
CheckExists ==
  /\ pc = "check"
  /\ IF path_exists(files, call.shp_path)
     THEN pc' = "read" /\ exc' = exc
     ELSE /\ pc' = "except"
          /\ exc' = Exc("FileNotFoundError", "Shapefile not found")
  /\ UNCHANGED << args, files, dataset, call, gdf, df, called, caught,
                  stdout, preview, exit_code >>

\* gdf = gpd.read_file(shp_path); any failure is re-raised as Exception.
\* A file that is there may still fail to load (malformed, unreadable).
ReadFile ==
  /\ pc = "read"
  /\ called' = [called EXCEPT !.reader = TRUE]
  /\ \/ /\ files[call.shp_path].kind = "shp"
        /\ gdf' = dataset
        /\ pc' = "prepare"
        /\ exc' = exc
     \/ /\ gdf' = gdf
        /\ pc' = "except"
        /\ exc' = Exc("Exception", "Error reading shapefile")
  /\ UNCHANGED << args, files, dataset, call, df, caught, stdout, preview,
                  exit_code >>

\* Default csv_path, reprojection to EPSG:4326 when needed, working copy.
Prepare ==
  /\ pc = "prepare"
  /\ call' = [call EXCEPT !.csv_path =
                IF call.csv_path = "None" THEN with_suffix_csv(call.shp_path)
                ELSE call.csv_path]
  /\ LET g == IF NeedsReproject(gdf.crs) THEN to_crs(gdf) ELSE gdf
     IN /\ gdf' = g
        /\ df' = g
  /\ called' = [called EXCEPT !.to_crs = NeedsReproject(gdf.crs)]
  /\ pc' = "flatten"
  /\ UNCHANGED << args, files, dataset, exc, caught, stdout, preview,
                  exit_code >>

\* The coord_format branches; df.geometry.x may raise ValueError.
FlattenGeometry ==
  /\ pc = "flatten"
  /\ IF FlattenRaises(df.cols, call.coord_format, call.include_geometry)
     THEN /\ df' = df
          /\ pc' = "except"
          /\ exc' = Exc("ValueError",
                        "x attribute access only provided for Point geometries")
     ELSE /\ df' = [df EXCEPT !.cols =
                      Flatten(df.cols, call.coord_format,
                              call.include_geometry)]
          /\ pc' = "cleanup"
          /\ exc' = exc
  /\ UNCHANGED << args, files, dataset, call, gdf, called, caught, stdout,
                  preview, exit_code >>

\* clean up any remaining geometry columns
CleanUpColumns ==
  /\ pc = "cleanup"
  /\ df' = [df EXCEPT !.cols = CleanUp(df.cols)]
  /\ pc' = "save"
  /\ UNCHANGED << args, files, dataset, call, gdf, exc, called, caught,
                  stdout, preview, exit_code >>

\* df.to_csv(csv_path, index=False); a failure of the writer (permission,
\* disk full) is re-raised as Exception.
Save ==
  /\ pc = "save"
  /\ called' = [called EXCEPT !.writer = TRUE]
  /\ \/ /\ files' = [files EXCEPT ![call.csv_path] = to_csv(df)]
        /\ pc' = "returned"
        /\ exc' = exc
     \/ /\ files' = files
        /\ pc' = "except"
        /\ exc' = Exc("Exception", "Error saving CSV file")
  /\ UNCHANGED << args, dataset, call, gdf, df, caught, stdout, preview,
                  exit_code >>

\* main after convert returned: completion messages, pd.read_csv preview.
Preview ==
  /\ pc = "returned"
  /\ LET done == << Line("Conversion completed successfully!", ""),
                    Line("Output file: ", call.csv_path) >>
     IN IF read_csv_ok(files[call.csv_path])
        THEN /\ preview' = read_csv(files[call.csv_path])
             /\ stdout' = stdout \o done
                            \o << Line("Preview of first 5 rows:", "") >>
             /\ pc' = "exit"
             /\ exit_code' = ExitStatus(FALSE)
             /\ exc' = exc
        ELSE /\ preview' = preview
             /\ stdout' = stdout \o done
             /\ pc' = "except"
             /\ exit_code' = exit_code
             /\ exc' = Exc("EmptyDataError", "No columns to parse from file")
  /\ UNCHANGED << args, files, dataset, call, gdf, df, called, caught >>

\* except Exception as e: print(f"Error: {e}"); sys.exit(1)
Except ==
  /\ pc = "except"
  /\ caught' = caught + 1
  /\ stdout' = Append(stdout, Line("Error: ", exc.msg))
  /\ exit_code' = ExitStatus(TRUE)
  /\ pc' = "exit"
  /\ UNCHANGED << args, files, dataset, call, gdf, df, exc, called, preview >>

Next ==
  \/ Main
  \/ CheckExists
  \/ ReadFile
  \/ Prepare
  \/ FlattenGeometry
  \/ CleanUpColumns
  \/ Save
  \/ Preview
  \/ Except

Spec == Init /\ [][Next]_vars

\* ======================================================== properties
\* Vocabulary of the properties.

\* Names of the non-geometry attributes of the source, in their order.
AttrNames == ColNames(DropCol(dataset.cols, "geometry"))

\* The reader returned a feature set.
Loaded ==
  /\ called.reader
  /\ pc # "read"
  /\ exc.msg # "Error reading shapefile"

\* The flattening branch raised.
FlattenFailed == exc.type = "ValueError"

\* The flattening branch has run to its end.
Flattened ==
  \/ pc \in {"cleanup", "save", "returned"}
  \/ pc \in {"except", "exit"} /\ called.writer
  \/ pc = "exit" /\ exc.type = "none"

\* df is the table handed to the writer.
OutputReady ==
  \/ pc \in {"save", "returned"}
  \/ pc \in {"except", "exit"} /\ called.writer
  \/ pc = "exit" /\ exc.type = "none"

\* Geometry cells of the source as loaded / as used for the derivation.
LoadedGeometry == GetCol(dataset.cols, "geometry")
WorkingGeometry == GetCol(gdf.cols, "geometry")

IsPointCell(c) == c.kind = "geom" /\ c.geom.gtype = "Point"
AllPoints == \A i \in 1..dataset.nrows : IsPointCell(LoadedGeometry[i])
SomePoint == \E i \in 1..dataset.nrows : IsPointCell(LoadedGeometry[i])

\* Expected coordinate cells, written out from the geometry record.
NativeX(c) == IF c.kind = "geom" THEN Num(c.geom.x1) ELSE Null
NativeY(c) == IF c.kind = "geom" THEN Num(c.geom.y1) ELSE Null
MidX(c) ==
  IF c.kind = "geom" THEN Num((c.geom.x1 + c.geom.x2) \div 2) ELSE Null
MidY(c) ==
  IF c.kind = "geom" THEN Num((c.geom.y1 + c.geom.y2) \div 2) ELSE Null
TypeName(c) == IF c.kind = "geom" THEN Str(c.geom.gtype) ELSE Null

ColumnIs(n, cells, Op(_)) ==
  /\ HasCol(df.cols, n)
  /\ GetCol(df.cols, n) = [i \in 1..Len(cells) |-> Op(cells[i])]

SeparateCall == call.include_geometry /\ call.coord_format = "separate"

DerivedNames == {"longitude", "latitude", "geometry_type", "geometry_wkt"}

\* ---------------------------------------------------------------- C1
\* C1: with coord_mode 'none' (any include_geometry) or include_geometry
\* false (any coord_mode), the output table has no geometry column, no
\* derived column added by the converter (a column carrying one of the
\* derived names is the source's own attribute, untouched), and as many
\* columns as the source has non-geometry attributes.
C1_NoGeometryColumns ==
  (OutputReady /\ (call.coord_format = "none" \/ ~call.include_geometry))
    => /\ ~HasCol(df.cols, "geometry")
       /\ ColNames(df.cols) = AttrNames
       /\ Len(df.cols) = Len(dataset.cols) - 1
       /\ \A d \in DerivedNames :
            HasCol(df.cols, d)
              => /\ HasCol(dataset.cols, d)
                 /\ GetCol(df.cols, d) = GetCol(dataset.cols, d)

C1_Witness ==
  /\ pc = "returned"
  /\ ~call.include_geometry
  /\ call.coord_format = "separate"
  /\ dataset.nrows = MaxFeatures
  /\ AttrNames = << "name", "longitude" >>

\* ---------------------------------------------------------------- C2
\* C2 as stated: for every feature set whose geometries are all Points
\* (the empty feature set included), 'separate' yields longitude / latitude
\* equal to each feature's x / y (of the geometry the derivation works on,
\* i.e. after the reprojection step), no geometry_type and no geometry
\* column.
C2_PointOnlyAsStated ==
  (Loaded /\ SeparateCall /\ AllPoints)
    => /\ ~FlattenFailed
       /\ Flattened
            => /\ ColumnIs("longitude", WorkingGeometry, NativeX)
               /\ ColumnIs("latitude", WorkingGeometry, NativeY)
               /\ ~HasCol(df.cols, "geometry_type")
               /\ ~HasCol(df.cols, "geometry")

\* C2 amended: the same for every feature set with at least one feature
\* whose geometries are all Points.
C2_PointOnlyNonEmpty ==
  (Loaded /\ SeparateCall /\ AllPoints /\ dataset.nrows >= 1)
    => /\ ~FlattenFailed
       /\ Flattened
            => /\ ColumnIs("longitude", WorkingGeometry, NativeX)
               /\ ColumnIs("latitude", WorkingGeometry, NativeY)
               /\ ~HasCol(df.cols, "geometry_type")
               /\ ~HasCol(df.cols, "geometry")

C2_Witness ==
  /\ pc = "returned"
  /\ SeparateCall
  /\ AllPoints
  /\ dataset.nrows = MaxFeatures
  /\ called.to_crs
  /\ GetCol(df.cols, "longitude")[1] # GetCol(df.cols, "latitude")[1]

\* ---------------------------------------------------------------- C3
\* C3: for every feature set without a Point geometry, 'separate' yields
\* longitude / latitude equal, row by row, to the centroid of the feature's
\* geometry (as the derivation sees it, after the reprojection step), a
\* geometry_type column holding each feature's type name, and no geometry
\* column.
C3_NoPointCentroid ==
  (Loaded /\ SeparateCall /\ ~SomePoint)
    => /\ ~FlattenFailed
       /\ Flattened
            => /\ ColumnIs("longitude", WorkingGeometry, MidX)
               /\ ColumnIs("latitude", WorkingGeometry, MidY)
               /\ ColumnIs("geometry_type", WorkingGeometry, TypeName)
               /\ ~HasCol(df.cols, "geometry")

C3_Witness ==
  /\ pc = "returned"
  /\ SeparateCall
  /\ ~SomePoint
  /\ dataset.nrows = MaxFeatures
  /\ LoadedGeometry[1].kind = "geom"
  /\ LoadedGeometry[1].geom.gtype = "Polygon"
  /\ LoadedGeometry[2].kind = "geom"
  /\ LoadedGeometry[2].geom.gtype = "LineString"
  /\ GetCol(df.cols, "geometry_type")[1] = Str("Polygon")

\* ---------------------------------------------------------------- C4
\* The derived columns the policy table gives for a mode.
PolicyColumns ==
  CASE call.coord_format = "none" -> <<>>
    [] call.coord_format = "separate" /\ SomePoint ->
         << "longitude", "latitude" >>
    [] call.coord_format = "wkt" -> << "geometry_wkt", "geometry_type" >>
    [] OTHER -> << "longitude", "latitude", "geometry_type" >>

\* C4: for every feature set and each of the four modes, reading back the
\* written CSV yields as many rows as there are features and exactly the
\* original attribute names, in order, followed by the policy's derived
\* columns.  (Failures of the reader or the writer themselves are outside
\* the claim.)
C4_RoundTrip ==
  (/\ pc = "exit"
   /\ Loaded
   /\ call.include_geometry
   /\ exc.msg # "Error saving CSV file")
    => /\ preview.ok
       /\ preview.nrows = dataset.nrows
       /\ preview.columns = AttrNames \o PolicyColumns

\* ---------------------------------------------------------------- C5
\* C5: when the source path does not exist, convert raises the not-found
\* error before the reader or the writer is invoked, the CLI prints an
\* 'Error:' message and exits with code 1, and no destination file is
\* created.
C5_MissingSource ==
  (files[args.shapefile].kind = "absent")
    => /\ ~called.reader
       /\ ~called.writer
       /\ \A p \in Paths : files[p].kind = "absent"
       /\ pc \in {"main", "check", "except", "exit"}
       /\ pc \in {"except", "exit"} => exc.type = "FileNotFoundError"
       /\ pc = "exit"
            => /\ exit_code = 1
               /\ stdout = << Line("Error: ", "Shapefile not found") >>

C5_Witness ==
  /\ pc = "exit"
  /\ files[args.shapefile].kind = "absent"
  /\ exc.type = "FileNotFoundError"
  /\ args.output = "out.csv"

\* ---------------------------------------------------------------- C6
\* An error was raised inside convert / convert returned its path.
ConvertRaised == exc.type \in {"FileNotFoundError", "Exception", "ValueError"}
ConvertReturned ==
  \/ pc = "returned"
  \/ pc \in {"except", "exit"} /\ exc.type \in {"none", "EmptyDataError"}

\* An error raised inside convert ends the run: caught once by main,
\* printed, exit code 1, nothing of the success path done.
ErrorEndsRun ==
  /\ exit_code = 1
  /\ caught = 1
  /\ Len(stdout) = 1
  /\ stdout[1] = Line("Error: ", exc.msg)
  /\ ~preview.ok

\* C6 as stated: the CLI exits 0 whenever convert succeeds (CSV written,
\* path returned) and exits 1 after printing 'Error: <message>' whenever an
\* error is raised inside convert, which is caught exactly once at the top
\* level and never continued past.
C6_ExitCodesAsStated ==
  pc = "exit"
    => /\ ConvertReturned => exit_code = 0
       /\ ConvertRaised => ErrorEndsRun

\* C6 amended: exit 0 whenever convert succeeds and the preview read-back of
\* the CSV succeeds; exit 1 after printing 'Error: <message>' whenever an
\* error is raised inside convert or by the preview read-back; the error is
\* caught exactly once at the top level and never continued past.
C6_ExitCodes ==
  pc = "exit"
    => /\ (ConvertReturned /\ exc.type = "none")
            => /\ exit_code = 0
               /\ caught = 0
               /\ preview.ok
       /\ ConvertRaised => ErrorEndsRun
       /\ exc.type = "EmptyDataError"
            => /\ exit_code = 1
               /\ caught = 1
               /\ stdout[Len(stdout)] = Line("Error: ", exc.msg)
               /\ ~preview.ok

C6_Witness ==
  /\ pc = "exit"
  /\ exc.type = "EmptyDataError"
  /\ files[call.csv_path].kind = "csv"
  /\ dataset.nrows = MaxFeatures
  /\ exit_code = 1
  /\ caught = 1

\* ---------------------------------------------------------------- C7
\* C7: no invocation changes the source file, whatever the destination
\* path (explicit or derived).
C7_SourceUnchanged ==
  [][files'[args.shapefile] = files[args.shapefile]]_vars

\* ---------------------------------------------------------------- C8
\* C8: in 'separate' mode, for every feature set with at least one Point
\* (mixed sets included), convert adds longitude / latitude from the native
\* point coordinates for every feature, no geometry_type column, drops the
\* geometry column and completes by writing the CSV with one row per
\* feature.  (Failures of the writer itself are outside the claim.)
C8_AnyPointCompletes ==
  (Loaded /\ SeparateCall /\ SomePoint)
    => /\ ~FlattenFailed
       /\ Flattened
            => /\ ColumnIs("longitude", WorkingGeometry, NativeX)
               /\ ColumnIs("latitude", WorkingGeometry, NativeY)
               /\ ~HasCol(df.cols, "geometry_type")
               /\ ~HasCol(df.cols, "geometry")
       /\ (pc = "exit" /\ exc.msg # "Error saving CSV file")
            => /\ files[call.csv_path].kind = "csv"
               /\ files[call.csv_path].nrows = dataset.nrows

\* ---------------------------------------------------------------- C9
\* The reprojection decision has been taken.
Prepared == Loaded /\ pc # "prepare"

CrsIsOther == dataset.crs.declared /\ dataset.crs.epsg # 4326

\* C9: reprojection is invoked exactly when the loaded feature set declares
\* a CRS other than EPSG:4326; otherwise it is not invoked, no error is
\* raised for the missing CRS, and the coordinate columns are derived from
\* the geometries as loaded.
C9_ReprojectExactlyWhenOtherCrs ==
  Prepared
    => /\ called.to_crs <=> CrsIsOther
       /\ ~CrsIsOther
            => /\ WorkingGeometry = LoadedGeometry
               /\ pc = "flatten" => exc.type = "none"
               /\ (Flattened /\ call.include_geometry
                     /\ call.coord_format = "centroid")
                    => /\ ColumnIs("longitude", LoadedGeometry, MidX)
                       /\ ColumnIs("latitude", LoadedGeometry, MidY)
               /\ (Flattened /\ SeparateCall /\ SomePoint)
                    => /\ ColumnIs("longitude", LoadedGeometry, NativeX)
                       /\ ColumnIs("latitude", LoadedGeometry, NativeY)

C9_Witness ==
  /\ pc = "returned"
  /\ ~dataset.crs.declared
  /\ ~called.to_crs
  /\ call.include_geometry
  /\ call.coord_format = "centroid"
  /\ dataset.nrows = MaxFeatures
  /\ LoadedGeometry[1].kind = "geom"

\* ---------------------------------------------------------------- C10
\* C10: after the clean-up scan no column of the table handed to the writer
\* holds a geometry object in any cell, whatever the position of the cell.
C10_NoGeometryCellLeft ==
  OutputReady
    => \A i \in 1..Len(df.cols) :
         \A j \in 1..Len(df.cols[i].cells) :
            df.cols[i].cells[j].kind # "geom"

====
